---- MODULE Spec2Model ----
(***************************************************************************)
(* HoTT telemetry (telemetry_hott.c): request detection on a half-duplex   *)
(* single-wire serial link, frame refresh and the byte-per-tick frame      *)
(* transmitter, driven by handleHoTTTelemetry().                           *)
(***************************************************************************)
EXTENDS Integers, Sequences, FiniteSets, TLC

(***************************************************************************)
(* Bounds of the model                                                     *)
(***************************************************************************)
\* number of calls of the handler that find nothing to do (no send in
\* progress and fewer than 2 bytes waiting) in one run
MaxIdleCalls == 2
\* number of calls of the handler that come late in one run
MaxLateCalls == 2
\* number of times the port is acquired in one run
MaxAcquisitions == 2

\* micros() values at which the module may be started, as 16-bit halves
\* <<high, low>>: 170000, so that the first refresh becomes due 30 ms later
StartTimes == { <<2, 38928>> }
\* time between two calls of handleHoTTTelemetry(), microseconds: the regular
\* period of the host loop, and a call that is late
Deltas == {2000, 3000}
Period == CHOOSE d \in Deltas : \A e \in Deltas : d <= e
\* what arrives on the wire in one run, in this order and at any times: two
\* requests (a second one may fall into the first one's response), an
\* unsupported address or a foreign request id followed by a request, and
\* three or four bytes of noise followed by a request
Traffic ==
    { <<128, 138, 128, 142>>, <<128, 142, 128, 138>>,
      <<128, 128, 128, 142>>, <<142, 138, 128, 138>>,
      <<138, 128, 142, 128, 142>>, <<142, 142, 128, 138, 128, 138>> }

(***************************************************************************)
(* C integer arithmetic                                                    *)
(***************************************************************************)
U8(x) == x % 256
U16(x) == x % 65536
\* a uint32_t is the pair <<high, low>> of its 16-bit halves
U32Add(t, d) ==
    LET lo == t[2] + d
    IN  << (t[1] + (lo \div 65536)) % 65536, lo % 65536 >>
\* a - b in uint32_t arithmetic
U32Sub(a, b) ==
    LET lo == a[2] - b[2]
    IN  << (a[1] - b[1] + (lo \div 65536)) % 65536, lo % 65536 >>
\* x >= k for a uint32_t x and a number k below 2^31
U32AtLeast(x, k) == x[1] >= 32768 \/ (x[1] * 65536) + x[2] >= k
S8(x) == ((x + 128) % 256) - 128
S16(x) == ((x + 32768) % 65536) - 32768
\* C division and remainder truncate toward zero (b > 0)
CDiv(a, b) == IF a >= 0 THEN a \div b ELSE -((-a) \div b)
CMod(a, b) == a - b * CDiv(a, b)
\* x >> 8 on a signed value is an arithmetic shift
Shr8(x) == x \div 256

RECURSIVE SumBytes(_)
SumBytes(s) == IF s = <<>> THEN 0 ELSE s[1] + SumBytes(Tail(s))

(***************************************************************************)
(* Constants                                                               *)
(***************************************************************************)
HOTT_MESSAGE_PREPARATION_FREQUENCY_5_HZ == 200000
HOTT_RX_SCHEDULE == 4000
HOTT_TX_DELAY_US == 3000
HOTT_CRC_SIZE == 1
HOTT_BAUDRATE == 19200
GPS_FIX_CHAR_NONE == 45
GPS_FIX_CHAR_2D == 50
GPS_FIX_CHAR_3D == 51
GPS_FIX_CHAR_DGPS == 68
\* telemetry/hott.h
HOTT_BINARY_MODE_REQUEST_ID == 128
HOTT_TELEMETRY_GPS_SENSOR_ID == 138
HOTT_TELEMETRY_EAM_SENSOR_ID == 142
HOTT_GPS_SENSOR_TEXT_ID == 160
HOTT_EAM_SENSOR_TEXT_ID == 224
HOTT_GPS_ALTITUDE_OFFSET == 500

MODE_RX == "MODE_RX"
MODE_TX == "MODE_TX"
MODE_RXTX == "MODE_RXTX"
HOTT_INITIAL_PORT_MODE == MODE_RX

(***************************************************************************)
(* Response frames: a frame is a record of byte fields; the layout gives   *)
(* the order of the fields in memory.                                      *)
(***************************************************************************)
HOTT_GPS_MSG_t ==
    << "start_byte", "gps_sensor_id", "sensor_id",
       "gps_speed_L", "gps_speed_H",
       "pos_NS", "pos_NS_dm_L", "pos_NS_dm_H", "pos_NS_sec_L", "pos_NS_sec_H",
       "pos_EW", "pos_EW_dm_L", "pos_EW_dm_H", "pos_EW_sec_L", "pos_EW_sec_H",
       "home_distance_L", "home_distance_H",
       "altitude_L", "altitude_H",
       "gps_satelites", "gps_fix_char", "home_direction",
       "stop_byte" >>

HOTT_EAM_MSG_t ==
    << "start_byte", "eam_sensor_id", "sensor_id",
       "warning_beeps", "alarm_invers1",
       "batt1_voltage_L", "batt1_voltage_H",
       "main_voltage_L", "main_voltage_H",
       "stop_byte" >>

FieldsOf(layout) == {layout[i] : i \in 1..Len(layout)}
\* memset(msg, 0, size)
Zeroed(layout) == [f \in FieldsOf(layout) |-> 0]

NULL == [frame |-> "NULL", off |-> 0]
GPSFRAME == "hottGPSMessage"
EAMFRAME == "hottEAMMessage"

LayoutOf(frame) == IF frame = GPSFRAME THEN HOTT_GPS_MSG_t ELSE HOTT_EAM_MSG_t
\* sizeof(hottGPSMessage), sizeof(hottEAMMessage)
SizeOf(frame) == Len(LayoutOf(frame))

(***************************************************************************)
(* Frame codec                                                             *)
(***************************************************************************)
initialiseEAMMessage ==
    [Zeroed(HOTT_EAM_MSG_t) EXCEPT
        !.start_byte = 124,
        !.eam_sensor_id = HOTT_TELEMETRY_EAM_SENSOR_ID,
        !.sensor_id = HOTT_EAM_SENSOR_TEXT_ID,
        !.stop_byte = 125]

initialiseGPSMessage ==
    [Zeroed(HOTT_GPS_MSG_t) EXCEPT
        !.start_byte = 124,
        !.gps_sensor_id = HOTT_TELEMETRY_GPS_SENSOR_ID,
        !.sensor_id = HOTT_GPS_SENSOR_TEXT_ID,
        !.stop_byte = 125]

\* int16_t deg; int32_t sec; int8_t min; uint16_t degMin
CoordDeg(c) == S16(CDiv(c, 10000000))
\* |c - deg * 10000000| < 10000000 for every int32_t c, so the product fits
CoordSec0(c) == (c - (CoordDeg(c) * 10000000)) * 6
CoordMin(c) == S8(CDiv(CoordSec0(c), 1000000))
CoordSec(c) == CDiv(CMod(CoordSec0(c), 1000000), 100)
CoordDegMin(c) == U16((CoordDeg(c) * 100) + CoordMin(c))

addGPSCoordinates(msg, latitude, longitude) ==
    [msg EXCEPT
        !.pos_NS = IF latitude < 0 THEN 1 ELSE 0,
        !.pos_NS_dm_L = U8(CoordDegMin(latitude)),
        !.pos_NS_dm_H = U8(Shr8(CoordDegMin(latitude))),
        !.pos_NS_sec_L = U8(CoordSec(latitude)),
        !.pos_NS_sec_H = U8(Shr8(CoordSec(latitude))),
        !.pos_EW = IF longitude < 0 THEN 1 ELSE 0,
        !.pos_EW_dm_L = U8(CoordDegMin(longitude)),
        !.pos_EW_dm_H = U8(Shr8(CoordDegMin(longitude))),
        !.pos_EW_sec_L = U8(CoordSec(longitude)),
        !.pos_EW_sec_H = U8(Shr8(CoordSec(longitude)))]

\* mutant: without a fix the frame is initialised again before the satellite
\* count and the fix character are written
hottPrepareGPSResponse_ClearsOnNoFix(msg, v) ==
    LET m1 == [msg EXCEPT !.gps_satelites = U8(v.GPS_numSat)]
        speed == U16(CDiv(v.GPS_speed, 100) * 36)
        hottGpsAltitude == U16(CDiv(v.GPS_altitude, 10) + HOTT_GPS_ALTITUDE_OFFSET)
    IN  IF ~v.GPS_FIX
        THEN [initialiseGPSMessage EXCEPT !.gps_satelites = U8(v.GPS_numSat),
                                          !.gps_fix_char = GPS_FIX_CHAR_NONE]
        ELSE LET m2 == [m1 EXCEPT !.gps_fix_char =
                            IF v.GPS_numSat >= 5 THEN GPS_FIX_CHAR_3D ELSE GPS_FIX_CHAR_2D]
                 m3 == addGPSCoordinates(m2, v.GPS_coord_LAT, v.GPS_coord_LON)
             IN  [m3 EXCEPT
                    !.gps_speed_L = speed % 256,
                    !.gps_speed_H = U8(Shr8(speed)),
                    !.home_distance_L = v.GPS_distanceToHome % 256,
                    !.home_distance_H = U8(Shr8(v.GPS_distanceToHome)),
                    !.altitude_L = hottGpsAltitude % 256,
                    !.altitude_H = U8(Shr8(hottGpsAltitude)),
                    !.home_direction = U8(v.GPS_directionToHome)]

\* mutant: a 3D fix takes more than 5 satellites
hottPrepareGPSResponse_Above5(msg, v) ==
    LET m1 == [msg EXCEPT !.gps_satelites = U8(v.GPS_numSat)]
        speed == U16(CDiv(v.GPS_speed, 100) * 36)
        hottGpsAltitude == U16(CDiv(v.GPS_altitude, 10) + HOTT_GPS_ALTITUDE_OFFSET)
    IN  IF ~v.GPS_FIX
        THEN [m1 EXCEPT !.gps_fix_char = GPS_FIX_CHAR_NONE]
        ELSE LET m2 == [m1 EXCEPT !.gps_fix_char =
                            IF v.GPS_numSat > 5 THEN GPS_FIX_CHAR_3D ELSE GPS_FIX_CHAR_2D]
                 m3 == addGPSCoordinates(m2, v.GPS_coord_LAT, v.GPS_coord_LON)
             IN  [m3 EXCEPT
                    !.gps_speed_L = speed % 256,
                    !.gps_speed_H = U8(Shr8(speed)),
                    !.home_distance_L = v.GPS_distanceToHome % 256,
                    !.home_distance_H = U8(Shr8(v.GPS_distanceToHome)),
                    !.altitude_L = hottGpsAltitude % 256,
                    !.altitude_H = U8(Shr8(hottGpsAltitude)),
                    !.home_direction = U8(v.GPS_directionToHome)]

\* mutant: the satellite count is stored in gps_sensor_id, not gps_satelites
hottPrepareGPSResponse_WrongField(msg, v) ==
    LET m1 == [msg EXCEPT !.gps_sensor_id = U8(v.GPS_numSat)]
    IN  IF ~v.GPS_FIX
        THEN [m1 EXCEPT !.gps_fix_char = GPS_FIX_CHAR_NONE]
        ELSE addGPSCoordinates(
                [m1 EXCEPT !.gps_fix_char =
                    IF v.GPS_numSat >= 5 THEN GPS_FIX_CHAR_3D ELSE GPS_FIX_CHAR_2D],
                v.GPS_coord_LAT, v.GPS_coord_LON)

\* v is the vehicle state read at composition time (f.GPS_FIX, GPS_numSat, ...)
hottPrepareGPSResponse(msg, v) ==
    LET m1 == [msg EXCEPT !.gps_satelites = U8(v.GPS_numSat)]
        speed == U16(CDiv(v.GPS_speed, 100) * 36)
        hottGpsAltitude == U16(CDiv(v.GPS_altitude, 10) + HOTT_GPS_ALTITUDE_OFFSET)
    IN  IF ~v.GPS_FIX
        THEN [m1 EXCEPT !.gps_fix_char = GPS_FIX_CHAR_NONE]
        ELSE LET m2 == [m1 EXCEPT !.gps_fix_char =
                            IF v.GPS_numSat >= 5 THEN GPS_FIX_CHAR_3D ELSE GPS_FIX_CHAR_2D]
                 m3 == addGPSCoordinates(m2, v.GPS_coord_LAT, v.GPS_coord_LON)
             IN  [m3 EXCEPT
                    !.gps_speed_L = speed % 256,
                    !.gps_speed_H = U8(Shr8(speed)),
                    !.home_distance_L = v.GPS_distanceToHome % 256,
                    !.home_distance_H = U8(Shr8(v.GPS_distanceToHome)),
                    !.altitude_L = hottGpsAltitude % 256,
                    !.altitude_H = U8(Shr8(hottGpsAltitude)),
                    !.home_direction = U8(v.GPS_directionToHome)]

hottEAMUpdateBattery(msg, v) ==
    [msg EXCEPT
        !.main_voltage_L = v.vbat % 256,
        !.main_voltage_H = U8(Shr8(v.vbat)),
        !.batt1_voltage_L = v.vbat % 256,
        !.batt1_voltage_H = U8(Shr8(v.vbat))]

hottPrepareEAMResponse(msg, v) ==
    hottEAMUpdateBattery([msg EXCEPT !.warning_beeps = 0, !.alarm_invers1 = 0], v)

\* m is the state of the module and of its port
hottPrepareMessages(m, v) ==
    [m EXCEPT
        !.hottEAMMessage = hottPrepareEAMResponse(m.hottEAMMessage, v),
        !.hottGPSMessage = hottPrepareGPSResponse(m.hottGPSMessage, v)]

(***************************************************************************)
(* Port primitives and the frame transmitter                               *)
(***************************************************************************)
\* the byte *hottMsg points at
Deref(m, p) ==
    IF p.frame = GPSFRAME
    THEN m.hottGPSMessage[HOTT_GPS_MSG_t[p.off + 1]]
    ELSE m.hottEAMMessage[HOTT_EAM_MSG_t[p.off + 1]]

\* serialWrite(hottPort, c): m.wire collects the bytes put on the wire by this
\* call of the handler; the static counter serialWrites is never read
hottSerialWrite(m, c) == [m EXCEPT !.wire = Append(@, c)]

serialSetMode(m, mode) == [m EXCEPT !.portMode = mode]

serialSetBaudRate(m, baudRate) == [m EXCEPT !.baudRate = baudRate]

\* the serial port that carries the telemetry: portUse is "closed" while it is
\* not open, "open" while it is open and not held for FUNCTION_TELEMETRY, and
\* "telemetry" while it is held for it
findOpenSerialPort(m) == m.portUse = "open"

openSerialPort(m, baudRate, mode) ==
    [m EXCEPT !.portUse = "telemetry", !.baudRate = baudRate, !.portMode = mode]

beginSerialPortFunction(m) == [m EXCEPT !.portUse = "telemetry"]

endSerialPortFunction(m) == [m EXCEPT !.portUse = "open"]

freeHoTTTelemetryPort(m) ==
    endSerialPortFunction(
        serialSetBaudRate(serialSetMode(m, m.previousPortMode), m.previousBaudRate))

\* mutant: the found port is saved after it has been set up for HoTT
configureHoTTTelemetryPort_LateSnapshot(m) ==
    IF findOpenSerialPort(m)
    THEN LET m1 == serialSetMode(serialSetBaudRate(m, HOTT_BAUDRATE),
                                 HOTT_INITIAL_PORT_MODE)
         IN  beginSerialPortFunction(
                [m1 EXCEPT !.previousPortMode = m1.portMode,
                           !.previousBaudRate = m1.baudRate])
    ELSE LET m1 == openSerialPort(m, HOTT_BAUDRATE, HOTT_INITIAL_PORT_MODE)
         IN  [m1 EXCEPT !.previousPortMode = m1.portMode,
                        !.previousBaudRate = m1.baudRate]

configureHoTTTelemetryPort(m) ==
    IF findOpenSerialPort(m)
    THEN LET m1 == [m EXCEPT !.previousPortMode = m.portMode,
                             !.previousBaudRate = m.baudRate]
         IN  beginSerialPortFunction(
                serialSetMode(serialSetBaudRate(m1, HOTT_BAUDRATE),
                              HOTT_INITIAL_PORT_MODE))
    ELSE LET m1 == openSerialPort(m, HOTT_BAUDRATE, HOTT_INITIAL_PORT_MODE)
         IN  [m1 EXCEPT !.previousPortMode = m1.portMode,
                        !.previousBaudRate = m1.baudRate]

hottSendResponse(m, buffer, length) ==
    IF m.hottIsSending
    THEN m
    ELSE [m EXCEPT
            !.hottMsg = [frame |-> buffer, off |-> 0],
            !.hottMsgRemainingBytesToSendCount = U8(length + HOTT_CRC_SIZE)]

hottSendGPSResponse(m) == hottSendResponse(m, GPSFRAME, SizeOf(GPSFRAME))

hottSendEAMResponse(m) == hottSendResponse(m, EAMFRAME, SizeOf(EAMFRAME))

\* mutant: case 0x8A lacks its break and falls through into case 0x8E
processBinaryModeRequest_Fallthrough(m, address, sensorGPS) ==
    CASE address = 138 -> hottSendEAMResponse(
                            IF sensorGPS
                            THEN hottSendGPSResponse([m EXCEPT !.sens = "yes"])
                            ELSE [m EXCEPT !.sens = "no"])
      [] address = 142 -> hottSendEAMResponse(m)
      [] OTHER -> m

\* mutant: the EAM response is the default case of the switch
processBinaryModeRequest_DefaultEAM(m, address, sensorGPS) ==
    CASE address = 138 -> IF sensorGPS
                          THEN hottSendGPSResponse([m EXCEPT !.sens = "yes"])
                          ELSE [m EXCEPT !.sens = "no"]
      [] OTHER -> hottSendEAMResponse(m)

processBinaryModeRequest(m, address, sensorGPS) ==
    \* m.sens records what sensors(SENSOR_GPS) answered
    CASE address = 138 -> IF sensorGPS
                          THEN hottSendGPSResponse([m EXCEPT !.sens = "yes"])
                          ELSE [m EXCEPT !.sens = "no"]
      [] address = 142 -> hottSendEAMResponse(m)
      [] OTHER -> m

\* mutant: if instead of while, one byte is read
flushHottRxBuffer_OneByte(m) ==
    IF m.rxBuf = <<>> THEN [m EXCEPT !.flushed = 0]
    ELSE [m EXCEPT !.rxBuf = Tail(@), !.flushed = 1]

\* while (serialTotalBytesWaiting(hottPort) > 0) serialRead(hottPort);
\* m.flushed records how many bytes the call discarded
flushHottRxBuffer(m) == [m EXCEPT !.rxBuf = <<>>, !.flushed = Len(m.rxBuf)]

\* mutant: an armed window is consumed without waiting for HOTT_RX_SCHEDULE
hottCheckSerialData_NoSettle(m0, currentMicros, sensorGPS) ==
    LET bytesWaiting == U8(Len(m0.rxBuf))
        m == [m0 EXCEPT !.waiting = bytesWaiting]
    IN  IF bytesWaiting <= 1 THEN m
        ELSE IF bytesWaiting # 2
        THEN [flushHottRxBuffer(m) EXCEPT !.lookingForRequest = TRUE]
        ELSE IF m.lookingForRequest
        THEN [m EXCEPT !.lastHoTTRequestCheckAt = currentMicros,
                       !.lookingForRequest = FALSE]
        ELSE LET requestId == m.rxBuf[1]
                 address == m.rxBuf[2]
                 m1 == [m EXCEPT !.lookingForRequest = TRUE,
                                 !.rxBuf = Tail(Tail(@)),
                                 !.req = <<requestId, address>>]
             IN  IF requestId = HOTT_BINARY_MODE_REQUEST_ID
                 THEN processBinaryModeRequest(m1, address, sensorGPS)
                 ELSE m1

\* mutant: reading a request does not set lookingForRequest again
hottCheckSerialData_StaysArmed(m0, currentMicros, sensorGPS) ==
    LET bytesWaiting == U8(Len(m0.rxBuf))
        m == [m0 EXCEPT !.waiting = bytesWaiting]
    IN  IF bytesWaiting <= 1 THEN m
        ELSE IF bytesWaiting # 2
        THEN [flushHottRxBuffer(m) EXCEPT !.lookingForRequest = TRUE]
        ELSE IF m.lookingForRequest
        THEN [m EXCEPT !.lastHoTTRequestCheckAt = currentMicros,
                       !.lookingForRequest = FALSE]
        ELSE LET enoughTimePassed ==
                    U32AtLeast(U32Sub(currentMicros, m.lastHoTTRequestCheckAt), HOTT_RX_SCHEDULE)
             IN  IF ~enoughTimePassed THEN m
                 ELSE LET requestId == m.rxBuf[1]
                          address == m.rxBuf[2]
                          m1 == [m EXCEPT !.rxBuf = Tail(Tail(@)),
                                          !.req = <<requestId, address>>]
                      IN  IF requestId = HOTT_BINARY_MODE_REQUEST_ID
                          THEN processBinaryModeRequest(m1, address, sensorGPS)
                          ELSE m1

\* mutant: the flush of a malformed request leaves lookingForRequest alone
hottCheckSerialData_NoDisarm(m0, currentMicros, sensorGPS) ==
    LET bytesWaiting == U8(Len(m0.rxBuf))
        m == [m0 EXCEPT !.waiting = bytesWaiting]
    IN  IF bytesWaiting <= 1 THEN m
        ELSE IF bytesWaiting # 2
        THEN flushHottRxBuffer(m)
        ELSE IF m.lookingForRequest
        THEN [m EXCEPT !.lastHoTTRequestCheckAt = currentMicros,
                       !.lookingForRequest = FALSE]
        ELSE LET enoughTimePassed ==
                    U32AtLeast(U32Sub(currentMicros, m.lastHoTTRequestCheckAt), HOTT_RX_SCHEDULE)
             IN  IF ~enoughTimePassed THEN m
                 ELSE LET requestId == m.rxBuf[1]
                          address == m.rxBuf[2]
                          m1 == [m EXCEPT !.lookingForRequest = TRUE,
                                          !.rxBuf = Tail(Tail(@)),
                                          !.req = <<requestId, address>>]
                      IN  IF requestId = HOTT_BINARY_MODE_REQUEST_ID
                          THEN processBinaryModeRequest(m1, address, sensorGPS)
                          ELSE m1

hottCheckSerialData(m0, currentMicros, sensorGPS) ==
    LET bytesWaiting == U8(Len(m0.rxBuf))
        \* m.waiting records the count the detector saw
        m == [m0 EXCEPT !.waiting = bytesWaiting]
    IN  IF bytesWaiting <= 1 THEN m
        ELSE IF bytesWaiting # 2
        THEN [flushHottRxBuffer(m) EXCEPT !.lookingForRequest = TRUE]
        ELSE IF m.lookingForRequest
        THEN [m EXCEPT !.lastHoTTRequestCheckAt = currentMicros,
                       !.lookingForRequest = FALSE]
        ELSE LET enoughTimePassed ==
                    U32AtLeast(U32Sub(currentMicros, m.lastHoTTRequestCheckAt), HOTT_RX_SCHEDULE)
             IN  IF ~enoughTimePassed THEN m
                 ELSE LET requestId == m.rxBuf[1]
                          address == m.rxBuf[2]
                          \* two serialRead(hottPort); m.req records the bytes read
                          m1 == [m EXCEPT !.lookingForRequest = TRUE,
                                          !.rxBuf = Tail(Tail(@)),
                                          !.req = <<requestId, address>>]
                      IN  IF requestId = HOTT_BINARY_MODE_REQUEST_ID
                          THEN processBinaryModeRequest(m1, address, sensorGPS)
                          ELSE m1

\* mutant: the completing step leaves the port in MODE_TX
hottSendTelemetryData_StaysTx(m) ==
    IF ~m.hottIsSending
    THEN [serialSetMode(m, MODE_TX) EXCEPT !.hottIsSending = TRUE, !.hottMsgCrc = 0]
    ELSE IF m.hottMsgRemainingBytesToSendCount = 0
    THEN flushHottRxBuffer([m EXCEPT !.hottMsg = NULL, !.hottIsSending = FALSE])
    ELSE LET m1 == [m EXCEPT !.hottMsgRemainingBytesToSendCount = U8(@ - 1)]
         IN  IF m1.hottMsgRemainingBytesToSendCount = 0
             THEN [hottSerialWrite(m1, m1.hottMsgCrc) EXCEPT !.hottMsgCrc = U8(@ + 1)]
             ELSE LET m2 == [m1 EXCEPT !.hottMsgCrc = U8(@ + Deref(m1, m1.hottMsg))]
                  IN  [hottSerialWrite(m2, Deref(m2, m2.hottMsg)) EXCEPT
                          !.hottMsg.off = @ + 1]

\* mutant: the step that writes the checksum also completes the send
hottSendTelemetryData_CompleteOnCrc(m) ==
    IF ~m.hottIsSending
    THEN [serialSetMode(m, MODE_TX) EXCEPT !.hottIsSending = TRUE, !.hottMsgCrc = 0]
    ELSE IF m.hottMsgRemainingBytesToSendCount = 0
    THEN flushHottRxBuffer(
            [serialSetMode(m, MODE_RX) EXCEPT !.hottMsg = NULL, !.hottIsSending = FALSE])
    ELSE LET m1 == [m EXCEPT !.hottMsgRemainingBytesToSendCount = U8(@ - 1)]
         IN  IF m1.hottMsgRemainingBytesToSendCount = 0
             THEN flushHottRxBuffer(
                    [serialSetMode(hottSerialWrite(m1, m1.hottMsgCrc), MODE_RX) EXCEPT
                        !.hottMsgCrc = U8(@ + 1), !.hottMsg = NULL,
                        !.hottIsSending = FALSE])
             ELSE LET m2 == [m1 EXCEPT !.hottMsgCrc = U8(@ + Deref(m1, m1.hottMsg))]
                  IN  [hottSerialWrite(m2, Deref(m2, m2.hottMsg)) EXCEPT
                          !.hottMsg.off = @ + 1]

\* mutant: the first step does not raise hottIsSending
hottSendTelemetryData_NoFlag(m) ==
    IF ~m.hottIsSending
    THEN [serialSetMode(m, MODE_TX) EXCEPT !.hottMsgCrc = 0]
    ELSE IF m.hottMsgRemainingBytesToSendCount = 0
    THEN flushHottRxBuffer(
            [serialSetMode(m, MODE_RX) EXCEPT !.hottMsg = NULL, !.hottIsSending = FALSE])
    ELSE LET m1 == [m EXCEPT !.hottMsgRemainingBytesToSendCount = U8(@ - 1)]
         IN  IF m1.hottMsgRemainingBytesToSendCount = 0
             THEN [hottSerialWrite(m1, m1.hottMsgCrc) EXCEPT !.hottMsgCrc = U8(@ + 1)]
             ELSE LET m2 == [m1 EXCEPT !.hottMsgCrc = U8(@ + Deref(m1, m1.hottMsg))]
                  IN  [hottSerialWrite(m2, Deref(m2, m2.hottMsg)) EXCEPT
                          !.hottMsg.off = @ + 1]

\* mutant: the checksum is taken from the frame as it stands in memory when
\* the last byte is due, not accumulated from the bytes written
hottSendTelemetryData_CachedCrc(m) ==
    IF ~m.hottIsSending
    THEN [serialSetMode(m, MODE_TX) EXCEPT !.hottIsSending = TRUE, !.hottMsgCrc = 0]
    ELSE IF m.hottMsgRemainingBytesToSendCount = 0
    THEN flushHottRxBuffer(
            [serialSetMode(m, MODE_RX) EXCEPT !.hottMsg = NULL, !.hottIsSending = FALSE])
    ELSE LET m1 == [m EXCEPT !.hottMsgRemainingBytesToSendCount = U8(@ - 1)]
             whole == [i \in 1..m.hottMsg.off |->
                          Deref(m, [frame |-> m.hottMsg.frame, off |-> i - 1])]
         IN  IF m1.hottMsgRemainingBytesToSendCount = 0
             THEN hottSerialWrite(m1, U8(SumBytes(whole)))
             ELSE [hottSerialWrite(m1, Deref(m1, m1.hottMsg)) EXCEPT
                      !.hottMsg.off = @ + 1]

hottSendTelemetryData(m) ==
    IF ~m.hottIsSending
    THEN [serialSetMode(m, MODE_TX) EXCEPT !.hottIsSending = TRUE, !.hottMsgCrc = 0]
    ELSE IF m.hottMsgRemainingBytesToSendCount = 0
    THEN flushHottRxBuffer(
            [serialSetMode(m, MODE_RX) EXCEPT !.hottMsg = NULL, !.hottIsSending = FALSE])
    ELSE LET m1 == [m EXCEPT !.hottMsgRemainingBytesToSendCount = U8(@ - 1)]
         IN  IF m1.hottMsgRemainingBytesToSendCount = 0
             THEN [hottSerialWrite(m1, m1.hottMsgCrc) EXCEPT !.hottMsgCrc = U8(@ + 1)]
             ELSE LET m2 == [m1 EXCEPT !.hottMsgCrc = U8(@ + Deref(m1, m1.hottMsg))]
                  IN  [hottSerialWrite(m2, Deref(m2, m2.hottMsg)) EXCEPT
                          !.hottMsg.off = @ + 1]

(***************************************************************************)
(* Session dispatcher                                                      *)
(***************************************************************************)
\* mutant: the gate compares currentMicros with lastMessagesPreparedAt + interval
\* computed without wrap-around
shouldPrepareHoTTMessages_NoWrap(m, currentMicros) ==
    LET lo == m.lastMessagesPreparedAt[2] + HOTT_MESSAGE_PREPARATION_FREQUENCY_5_HZ
        due == << m.lastMessagesPreparedAt[1] + (lo \div 65536), lo % 65536 >>
    IN  \/ currentMicros[1] > due[1]
        \/ currentMicros[1] = due[1] /\ currentMicros[2] >= due[2]

shouldPrepareHoTTMessages(m, currentMicros) ==
    U32AtLeast(U32Sub(currentMicros, m.lastMessagesPreparedAt),
               HOTT_MESSAGE_PREPARATION_FREQUENCY_5_HZ)

\* mutant: the request check is not held back while a send runs
shouldCheckForHoTTRequest_Always(m) == TRUE

shouldCheckForHoTTRequest(m) == IF m.hottIsSending THEN FALSE ELSE TRUE

\* mutant: the frames are not refreshed while a send is in progress
handleHoTTTelemetry_GatedRefresh(m, now, v, sensorGPS) ==
    LET m1 == IF shouldPrepareHoTTMessages(m, now) /\ ~m.hottIsSending
              THEN [hottPrepareMessages(m, v) EXCEPT !.lastMessagesPreparedAt = now]
              ELSE m
        m2 == IF shouldCheckForHoTTRequest(m1)
              THEN hottCheckSerialData(m1, now, sensorGPS)
              ELSE m1
    IN  IF m2.hottMsg = NULL THEN m2
        ELSE IF m2.hottIsSending /\ ~U32AtLeast(U32Sub(now, m2.serialTimer), HOTT_TX_DELAY_US)
        THEN m2
        ELSE [hottSendTelemetryData(m2) EXCEPT !.serialTimer = now]

\* mutant: serialTimer is set in every call that finds a send scheduled, also
\* in one that comes too early to step the transmitter
handleHoTTTelemetry_TimerEveryCall(m, now, v, sensorGPS) ==
    LET m1 == IF shouldPrepareHoTTMessages(m, now)
              THEN [hottPrepareMessages(m, v) EXCEPT !.lastMessagesPreparedAt = now]
              ELSE m
        m2 == IF shouldCheckForHoTTRequest(m1)
              THEN hottCheckSerialData(m1, now, sensorGPS)
              ELSE m1
    IN  IF m2.hottMsg = NULL THEN m2
        ELSE IF m2.hottIsSending /\ ~U32AtLeast(U32Sub(now, m2.serialTimer), HOTT_TX_DELAY_US)
        THEN [m2 EXCEPT !.serialTimer = now]
        ELSE [hottSendTelemetryData(m2) EXCEPT !.serialTimer = now]

\* mutant: the transmitter is stepped in every call, whatever time has passed
handleHoTTTelemetry_NoDelay(m, now, v, sensorGPS) ==
    LET m1 == IF shouldPrepareHoTTMessages(m, now)
              THEN [hottPrepareMessages(m, v) EXCEPT !.lastMessagesPreparedAt = now]
              ELSE m
        m2 == IF shouldCheckForHoTTRequest(m1)
              THEN hottCheckSerialData(m1, now, sensorGPS)
              ELSE m1
    IN  IF m2.hottMsg = NULL THEN m2
        ELSE [hottSendTelemetryData(m2) EXCEPT !.serialTimer = now]

handleHoTTTelemetry(m, now, v, sensorGPS) ==
    LET m1 == IF shouldPrepareHoTTMessages(m, now)
              THEN [hottPrepareMessages(m, v) EXCEPT !.lastMessagesPreparedAt = now]
              ELSE m
        m2 == IF shouldCheckForHoTTRequest(m1)
              THEN hottCheckSerialData(m1, now, sensorGPS)
              ELSE m1
    IN  IF m2.hottMsg = NULL THEN m2
        ELSE IF m2.hottIsSending /\ ~U32AtLeast(U32Sub(now, m2.serialTimer), HOTT_TX_DELAY_US)
        THEN m2
        ELSE [hottSendTelemetryData(m2) EXCEPT !.serialTimer = now]

(***************************************************************************)
(* State                                                                   *)
(***************************************************************************)
VARIABLES
    clock,                              \* micros() at the last call
    pending,                            \* bytes that are still to arrive
    idleCalls,                          \* number of calls that found nothing to do
    lateCalls,                          \* number of calls that came late
    lastHoTTRequestCheckAt,
    lastMessagesPreparedAt,
    serialTimer,
    hottIsSending,
    hottMsg,
    hottMsgRemainingBytesToSendCount,
    hottMsgCrc,
    lookingForRequest,
    hottGPSMessage,
    hottEAMMessage,
    portMode,                           \* hottPort->mode
    rxBuf,                              \* bytes waiting in hottPort
    baudRate,                           \* hottPort->baudRate
    portUse,                            \* "closed", "open" or "telemetry"
    previousPortMode,
    previousBaudRate,
    acquisition,                        \* the last configureHoTTTelemetryPort(): the path
                                        \* it took and the port as it found it
    refreshed,                          \* the last refresh: the vehicle state it read, the
                                        \* GPS frame as it found it, and the GPS frame as
                                        \* the last refresh that had a fix left it
    probe,                              \* what the call of the handler just made did
    txLog,                              \* bytes written since the last send was scheduled
    txFrame,                            \* frame selected when the last send was scheduled
    txOnAt,                             \* micros() of the last switch to MODE_TX
    lastWriteAt                         \* micros() of the last byte written

vars == << clock, pending, idleCalls, lateCalls, lastHoTTRequestCheckAt, lastMessagesPreparedAt,
           serialTimer, hottIsSending, hottMsg, hottMsgRemainingBytesToSendCount,
           hottMsgCrc, lookingForRequest, hottGPSMessage, hottEAMMessage, portMode,
           rxBuf, baudRate, portUse, previousPortMode, previousBaudRate, acquisition,
           refreshed, probe, txLog, txFrame, txOnAt, lastWriteAt >>

\* vehicle state the telemetry source may hold when a refresh reads it
Snapshots ==
    { [GPS_FIX |-> FALSE, GPS_numSat |-> 6, GPS_coord_LAT |-> 0, GPS_coord_LON |-> 0,
       GPS_speed |-> 0, GPS_distanceToHome |-> 0, GPS_altitude |-> 0,
       GPS_directionToHome |-> 0, vbat |-> 111],
      [GPS_FIX |-> TRUE, GPS_numSat |-> 4, GPS_coord_LAT |-> 123456789,
       GPS_coord_LON |-> -987654321, GPS_speed |-> 250, GPS_distanceToHome |-> 40000,
       GPS_altitude |-> 12345, GPS_directionToHome |-> -90, vbat |-> 126] }

Never == << -1, 0 >>
NoProbe ==
    [ran |-> FALSE, waiting |-> -1, req |-> <<>>, sens |-> "unread", flushed |-> -1,
     wire |-> <<>>]

\* before the first refresh: nothing read yet
NoRefresh ==
    [n |-> 0, at |-> <<0, 0>>, before |-> initialiseGPSMessage,
     fix |-> initialiseGPSMessage,
     v |-> [GPS_FIX |-> FALSE, GPS_numSat |-> 0, GPS_coord_LAT |-> 0, GPS_coord_LON |-> 0,
            GPS_speed |-> 0, GPS_distanceToHome |-> 0, GPS_altitude |-> 0,
            GPS_directionToHome |-> 0, vbat |-> 0]]

\* hottPort and the statics that belong to it
PortCur ==
    [portMode |-> portMode, baudRate |-> baudRate, portUse |-> portUse,
     previousPortMode |-> previousPortMode, previousBaudRate |-> previousBaudRate]

\* the serial port before the telemetry acquires it: open for another function
\* of the flight controller, or not open, as its last user left it
PriorPorts ==
    { [portUse |-> "open", portMode |-> MODE_RXTX, baudRate |-> 115200],
      [portUse |-> "closed", portMode |-> MODE_TX, baudRate |-> 57600] }

\* static portMode_t previousPortMode; static uint32_t previousBaudRate;
Unacquired(port) ==
    [portMode |-> port.portMode, baudRate |-> port.baudRate, portUse |-> port.portUse,
     previousPortMode |-> "0", previousBaudRate |-> 0]

\* the module's state at the entry of a call
Cur ==
    [lastHoTTRequestCheckAt |-> lastHoTTRequestCheckAt,
     lastMessagesPreparedAt |-> lastMessagesPreparedAt,
     serialTimer |-> serialTimer,
     hottIsSending |-> hottIsSending,
     hottMsg |-> hottMsg,
     hottMsgRemainingBytesToSendCount |-> hottMsgRemainingBytesToSendCount,
     hottMsgCrc |-> hottMsgCrc,
     lookingForRequest |-> lookingForRequest,
     hottGPSMessage |-> hottGPSMessage,
     hottEAMMessage |-> hottEAMMessage,
     portMode |-> portMode,
     rxBuf |-> rxBuf,
     waiting |-> -1, req |-> <<>>, sens |-> "unread", flushed |-> -1, wire |-> <<>>]

\* initHoTTTelemetry(): statics as initialised, frames initialised
Initialised ==
    /\ idleCalls = 0
    /\ lateCalls = 0
    /\ lastHoTTRequestCheckAt = <<0, 0>>
    /\ lastMessagesPreparedAt = <<0, 0>>
    /\ serialTimer = <<0, 0>>
    /\ hottIsSending = FALSE
    /\ hottMsg = NULL
    /\ hottMsgRemainingBytesToSendCount = 0
    /\ hottMsgCrc = 0
    /\ lookingForRequest = TRUE
    /\ hottGPSMessage = initialiseGPSMessage
    /\ hottEAMMessage = initialiseEAMMessage
    /\ rxBuf = <<>>
    /\ refreshed = NoRefresh
    /\ probe = NoProbe
    /\ txLog = <<>>
    /\ txFrame = "NULL"
    /\ txOnAt = Never
    /\ lastWriteAt = Never

\* the port as configureHoTTTelemetryPort() leaves it when it finds it at prior
Acquired(prior) ==
    LET p == configureHoTTTelemetryPort(Unacquired(prior))
    IN  /\ portMode = p.portMode
        /\ baudRate = p.baudRate
        /\ portUse = p.portUse
        /\ previousPortMode = p.previousPortMode
        /\ previousBaudRate = p.previousBaudRate
        /\ acquisition = [via |-> IF findOpenSerialPort(Unacquired(prior))
                                  THEN "find" ELSE "open",
                          portMode |-> prior.portMode, baudRate |-> prior.baudRate,
                          count |-> 1]

\* initHoTTTelemetry(); configureHoTTTelemetryPort(): statics as initialised,
\* frames initialised, port in HOTT_INITIAL_PORT_MODE
Init ==
    /\ Initialised
    /\ clock \in StartTimes
    /\ pending \in Traffic
    /\ Acquired([portUse |-> "open", portMode |-> MODE_RXTX, baudRate |-> 115200])

\* one call of handleHoTTTelemetry(), d microseconds after the previous one,
\* with the vehicle state v and sensors(SENSOR_GPS) = sensorGPS
Tick(d, v, sensorGPS) ==
    \E now \in {U32Add(clock, d)} :
    \E r \in {handleHoTTTelemetry(Cur, now, v, sensorGPS)} :
    LET scheduled == hottMsg = NULL /\ r.hottMsg # NULL
        idle == ~hottIsSending /\ Len(rxBuf) <= 1
    IN  /\ idle => idleCalls < MaxIdleCalls
        /\ d # Period => lateCalls < MaxLateCalls
        /\ lateCalls' = IF d # Period THEN lateCalls + 1 ELSE lateCalls
        /\ idleCalls' = IF idle THEN idleCalls + 1 ELSE idleCalls
        /\ clock' = now
        /\ lastHoTTRequestCheckAt' = r.lastHoTTRequestCheckAt
        /\ lastMessagesPreparedAt' = r.lastMessagesPreparedAt
        /\ serialTimer' = r.serialTimer
        /\ hottIsSending' = r.hottIsSending
        /\ hottMsg' = r.hottMsg
        /\ hottMsgRemainingBytesToSendCount' = r.hottMsgRemainingBytesToSendCount
        /\ hottMsgCrc' = r.hottMsgCrc
        /\ lookingForRequest' = r.lookingForRequest
        /\ hottGPSMessage' = r.hottGPSMessage
        /\ hottEAMMessage' = r.hottEAMMessage
        /\ portMode' = r.portMode
        /\ rxBuf' = r.rxBuf
        /\ probe' = [ran |-> r.waiting # -1, waiting |-> r.waiting, req |-> r.req,
                     sens |-> r.sens, flushed |-> r.flushed, wire |-> r.wire]
        /\ txLog' = IF scheduled THEN r.wire ELSE txLog \o r.wire
        /\ txFrame' = IF scheduled THEN r.hottMsg.frame ELSE txFrame
        /\ txOnAt' = IF portMode = MODE_RX /\ r.portMode = MODE_TX THEN now ELSE txOnAt
        /\ lastWriteAt' = IF r.wire # <<>> THEN now ELSE lastWriteAt
        /\ refreshed' = IF shouldPrepareHoTTMessages(Cur, now)
                        THEN [n |-> refreshed.n + 1, at |-> now,
                              before |-> hottGPSMessage,
                              fix |-> IF v.GPS_FIX THEN r.hottGPSMessage
                                                   ELSE refreshed.fix,
                              v |-> v]
                        ELSE refreshed
        /\ UNCHANGED << pending, baudRate, portUse, previousPortMode, previousBaudRate,
                        acquisition >>

\* a byte arrives on the wire and is buffered by the serial driver
Arrive ==
    /\ pending # <<>>
    /\ pending' = Tail(pending)
    /\ rxBuf' = Append(rxBuf, Head(pending))
    /\ probe' = NoProbe
    /\ UNCHANGED << clock, idleCalls, lateCalls, lastHoTTRequestCheckAt,
                    lastMessagesPreparedAt, serialTimer, hottIsSending, hottMsg,
                    hottMsgRemainingBytesToSendCount, hottMsgCrc, lookingForRequest,
                    hottGPSMessage, hottEAMMessage, portMode, txLog, txFrame,
                    txOnAt, lastWriteAt, baudRate, portUse, previousPortMode,
                    previousBaudRate, acquisition, refreshed >>

\* the inputs a call at d microseconds after the previous one can read: the
\* vehicle state is read by a refresh only, sensors(SENSOR_GPS) only when a
\* request for address 0x8A is waiting
VehicleInputs(d) ==
    IF shouldPrepareHoTTMessages(Cur, U32Add(clock, d))
    THEN Snapshots
    ELSE {CHOOSE v \in Snapshots : ~v.GPS_FIX}

SensorInputs ==
    IF Len(rxBuf) >= 2 /\ rxBuf[2] = 138 THEN BOOLEAN ELSE {TRUE}

Next ==
    \/ \E d \in Deltas : \E v \in VehicleInputs(d), sensorGPS \in SensorInputs :
            Tick(d, v, sensorGPS)
    \/ Arrive

Spec == Init /\ [][Next]_vars

\* the main loop keeps calling handleHoTTTelemetry(): a call that is possible
\* is eventually made
HandlerCall ==
    \E d \in Deltas : \E v \in VehicleInputs(d), sensorGPS \in SensorInputs :
        Tick(d, v, sensorGPS)

\* what arrives on the wire in a run of the fair loop: a request, and a second
\* one that may fall into the response to the first
FairTraffic == { <<128, 142, 128, 138>> }

InitFair ==
    /\ Initialised
    /\ clock \in StartTimes
    /\ pending \in FairTraffic
    /\ Acquired([portUse |-> "open", portMode |-> MODE_RXTX, baudRate |-> 115200])

SpecFair == InitFair /\ [][Next]_vars /\ WF_vars(HandlerCall)

(***************************************************************************)
(* Acquisition and release of the port                                     *)
(***************************************************************************)
\* what arrives on the wire in a run that acquires and releases the port
PortTraffic == { <<128, 142>> }

Configure ==
    LET p == configureHoTTTelemetryPort(PortCur)
    IN  /\ portUse # "telemetry"
        /\ acquisition.count < MaxAcquisitions
        /\ portMode' = p.portMode
        /\ baudRate' = p.baudRate
        /\ portUse' = p.portUse
        /\ previousPortMode' = p.previousPortMode
        /\ previousBaudRate' = p.previousBaudRate
        /\ acquisition' = [via |-> IF findOpenSerialPort(PortCur) THEN "find" ELSE "open",
                           portMode |-> portMode, baudRate |-> baudRate,
                           count |-> acquisition.count + 1]
        /\ probe' = NoProbe
        /\ UNCHANGED << clock, pending, idleCalls, lateCalls, lastHoTTRequestCheckAt,
                        lastMessagesPreparedAt, serialTimer, hottIsSending, hottMsg,
                        hottMsgRemainingBytesToSendCount, hottMsgCrc, lookingForRequest,
                        hottGPSMessage, hottEAMMessage, rxBuf, refreshed, txLog, txFrame,
                        txOnAt, lastWriteAt >>

Free ==
    LET p == freeHoTTTelemetryPort(PortCur)
    IN  /\ portUse = "telemetry"
        /\ portMode' = p.portMode
        /\ baudRate' = p.baudRate
        /\ portUse' = p.portUse
        /\ previousPortMode' = p.previousPortMode
        /\ previousBaudRate' = p.previousBaudRate
        /\ probe' = NoProbe
        /\ UNCHANGED << clock, pending, idleCalls, lateCalls, lastHoTTRequestCheckAt,
                        lastMessagesPreparedAt, serialTimer, hottIsSending, hottMsg,
                        hottMsgRemainingBytesToSendCount, hottMsgCrc, lookingForRequest,
                        hottGPSMessage, hottEAMMessage, rxBuf, acquisition, refreshed,
                        txLog, txFrame, txOnAt, lastWriteAt >>

\* initHoTTTelemetry() has run, the port is not acquired yet
InitPort ==
    /\ Initialised
    /\ clock \in StartTimes
    /\ pending \in PortTraffic
    /\ \E prior \in PriorPorts :
          /\ portMode = prior.portMode
          /\ baudRate = prior.baudRate
          /\ portUse = prior.portUse
    /\ previousPortMode = "0"
    /\ previousBaudRate = 0
    /\ acquisition = [via |-> "none", portMode |-> MODE_RX, baudRate |-> 0, count |-> 0]

\* the handler is called, and bytes are buffered, while the port is held
NextPort ==
    \/ Configure
    \/ Free
    \/ /\ portUse = "telemetry"
       /\ \E d \in Deltas : \E v \in VehicleInputs(d), sensorGPS \in SensorInputs :
                Tick(d, v, sensorGPS)
    \/ /\ portUse = "telemetry"
       /\ Arrive

SpecPort == InitPort /\ [][NextPort]_vars

(***************************************************************************)
(* Runs with more than one refresh: while the link is quiet the handler is *)
(* also called after a pause as long as the refresh interval.              *)
(***************************************************************************)
Pause == HOTT_MESSAGE_PREPARATION_FREQUENCY_5_HZ

\* vehicle states a refresh may read: with and without a fix, few and many
\* satellites, positions in all four hemispheres and at the ends of the range
RefreshSnapshots ==
    { [GPS_FIX |-> FALSE, GPS_numSat |-> 0, GPS_coord_LAT |-> 515000000,
       GPS_coord_LON |-> -1278000, GPS_speed |-> 100, GPS_distanceToHome |-> 7,
       GPS_altitude |-> 300, GPS_directionToHome |-> 45, vbat |-> 111],
      [GPS_FIX |-> FALSE, GPS_numSat |-> 7, GPS_coord_LAT |-> -337654321,
       GPS_coord_LON |-> 1512345678, GPS_speed |-> 900, GPS_distanceToHome |-> 300,
       GPS_altitude |-> 1000, GPS_directionToHome |-> 170, vbat |-> 126],
      [GPS_FIX |-> TRUE, GPS_numSat |-> 3, GPS_coord_LAT |-> 123456789,
       GPS_coord_LON |-> -987654321, GPS_speed |-> 250, GPS_distanceToHome |-> 40000,
       GPS_altitude |-> 12345, GPS_directionToHome |-> -90, vbat |-> 126],
      [GPS_FIX |-> TRUE, GPS_numSat |-> 5, GPS_coord_LAT |-> -337654321,
       GPS_coord_LON |-> 1512345678, GPS_speed |-> 1234, GPS_distanceToHome |-> 65535,
       GPS_altitude |-> 0, GPS_directionToHome |-> 179, vbat |-> 168],
      [GPS_FIX |-> TRUE, GPS_numSat |-> 4, GPS_coord_LAT |-> -5000000,
       GPS_coord_LON |-> 0, GPS_speed |-> 0, GPS_distanceToHome |-> 0,
       GPS_altitude |-> 65535, GPS_directionToHome |-> 0, vbat |-> 99],
      [GPS_FIX |-> TRUE, GPS_numSat |-> 12, GPS_coord_LAT |-> 900000000,
       GPS_coord_LON |-> -1800000000, GPS_speed |-> 65535, GPS_distanceToHome |-> 255,
       GPS_altitude |-> 655, GPS_directionToHome |-> -180, vbat |-> 255] }

\* what arrives on the wire in such a run
RefreshTraffic == { <<128, 138>>, <<128, 138, 128, 138>> }

RefreshInputs(d) ==
    IF shouldPrepareHoTTMessages(Cur, U32Add(clock, d))
    THEN RefreshSnapshots
    ELSE {CHOOSE v \in RefreshSnapshots : ~v.GPS_FIX}

InitRefresh ==
    /\ Initialised
    /\ clock \in StartTimes
    /\ pending \in RefreshTraffic
    /\ Acquired([portUse |-> "closed", portMode |-> MODE_RX, baudRate |-> 19200])

NextRefresh ==
    \/ \E v \in RefreshInputs(Period), sensorGPS \in SensorInputs :
            Tick(Period, v, sensorGPS)
    \/ /\ ~hottIsSending
       /\ rxBuf = <<>>
       /\ \E v \in RefreshInputs(Pause) : Tick(Pause, v, TRUE)
    \/ Arrive

SpecRefresh == InitRefresh /\ [][NextRefresh]_vars

(***************************************************************************)
(* Runs in which micros() wraps past 2^32                                  *)
(***************************************************************************)
\* micros() when the module is started: 7000 us and 30000 us before the wrap
WrapStartTimes == { <<65535, 58536>>, <<65535, 35536>> }

WrapTraffic == { <<128, 138>>, <<128, 142, 128, 138>> }

InitWrap ==
    /\ Initialised
    /\ clock \in WrapStartTimes
    /\ pending \in WrapTraffic
    /\ Acquired([portUse |-> "open", portMode |-> MODE_RXTX, baudRate |-> 115200])

NextWrap ==
    \/ \E d \in Deltas : \E v \in VehicleInputs(d), sensorGPS \in SensorInputs :
            Tick(d, v, sensorGPS)
    \/ /\ ~hottIsSending
       /\ rxBuf = <<>>
       /\ \E v \in VehicleInputs(Pause) : Tick(Pause, v, TRUE)
    \/ Arrive

SpecWrap == InitWrap /\ [][NextWrap]_vars

(***************************************************************************)
(* Vocabulary of the properties                                            *)
(***************************************************************************)
\* a step that is a call of the handler (micros() has advanced)
IsTick == clock' # clock

\* the bytes of a frame in memory order
FrameBytes(frame) ==
    [i \in 1..SizeOf(frame) |->
        IF frame = GPSFRAME THEN hottGPSMessage[HOTT_GPS_MSG_t[i]]
                            ELSE hottEAMMessage[HOTT_EAM_MSG_t[i]]]

\* a send has run to its end and no other was scheduled since
SendCompleted == txFrame # "NULL" /\ hottMsg = NULL /\ ~hottIsSending

\* time since the previous step of the transmitter, at a call at micros() = now
SinceLastStep(now) == U32Sub(now, IF txLog = <<>> THEN txOnAt ELSE lastWriteAt)

(***************************************************************************)
(* C1  Single in-flight send: from the moment hottSendResponse has set     *)
(* hottMsg until the send completes, no call of the handler points hottMsg *)
(* at another frame or reloads the remaining-byte count (it only counts    *)
(* down by one per byte), and every byte written is the byte of the frame  *)
(* selected at the start that the cursor stands at, or, after the last     *)
(* byte of that frame, its checksum.                                       *)
(***************************************************************************)
C1_SingleInFlight ==
    [][ (IsTick /\ hottMsg # NULL) =>
          /\ hottMsg.frame = txFrame
          /\ txFrame' = txFrame
          /\ hottMsg' = NULL \/ hottMsg'.frame = hottMsg.frame
          /\ hottMsg' # NULL =>
                /\ hottMsg'.off = hottMsg.off + (IF Len(txLog') > Len(txLog) /\
                                                    Len(txLog) < SizeOf(txFrame)
                                                 THEN 1 ELSE 0)
                /\ hottMsgRemainingBytesToSendCount' =
                       hottMsgRemainingBytesToSendCount - Len(probe'.wire)
          /\ \A i \in 1..Len(probe'.wire) :
                IF Len(txLog) + i <= SizeOf(txFrame)
                THEN probe'.wire[i] =
                        (IF txFrame = GPSFRAME
                         THEN hottGPSMessage'[HOTT_GPS_MSG_t[Len(txLog) + i]]
                         ELSE hottEAMMessage'[HOTT_EAM_MSG_t[Len(txLog) + i]])
                ELSE probe'.wire[i] = hottMsgCrc
      ]_vars

\* a byte of the GPS frame has just been written while a complete request for
\* the EAM frame is waiting in the receive buffer
C1_Witness ==
    /\ hottIsSending
    /\ txFrame = GPSFRAME
    /\ Len(txLog) >= 2
    /\ probe.wire # <<>>
    /\ rxBuf = <<HOTT_BINARY_MODE_REQUEST_ID, 142>>

(***************************************************************************)
(* C2  Half-duplex exclusion: a call of the handler that finds a send in   *)
(* progress does not run hottCheckSerialData: it reads no request, leaves   *)
(* lookingForRequest and lastHoTTRequestCheckAt alone, schedules no send,   *)
(* and leaves the receive buffer as it is unless it completes the send, in *)
(* which case it empties it.                                               *)
(***************************************************************************)
C2_HalfDuplex ==
    [][ (IsTick /\ hottIsSending) =>
          /\ ~probe'.ran
          /\ probe'.req = <<>>
          /\ lookingForRequest' = lookingForRequest
          /\ lastHoTTRequestCheckAt' = lastHoTTRequestCheckAt
          /\ hottMsg' = NULL \/ hottMsg'.frame = hottMsg.frame
          /\ txFrame' = txFrame
          /\ IF hottIsSending' THEN rxBuf' = rxBuf /\ probe'.flushed = -1
                               ELSE rxBuf' = <<>> /\ probe'.flushed = Len(rxBuf)
      ]_vars

\* a call has just left a complete GPS request untouched in the receive
\* buffer because the EAM frame is being sent
C2_Witness ==
    /\ hottIsSending
    /\ txFrame = EAMFRAME
    /\ probe.wire # <<>>
    /\ ~probe.ran
    /\ rxBuf = <<HOTT_BINARY_MODE_REQUEST_ID, 138>>

(***************************************************************************)
(* C3  Checksum: once the last byte of a send is on the wire, it equals    *)
(* the sum modulo 256 of the bytes written before it in that send, also    *)
(* when a refresh changed the frame buffer between two of the writes.      *)
(***************************************************************************)
C3_Checksum ==
    (txFrame # "NULL" /\ Len(txLog) = SizeOf(txFrame) + 1) =>
        txLog[Len(txLog)] = SumBytes(SubSeq(txLog, 1, Len(txLog) - 1)) % 256

\* a completed send whose bytes are not the frame as it stands in memory: a
\* refresh fell between two of its writes
C3_Witness ==
    /\ SendCompleted
    /\ Len(txLog) = SizeOf(txFrame) + 1
    /\ SubSeq(txLog, 1, SizeOf(txFrame)) # FrameBytes(txFrame)
    /\ txLog[1] = 124
    /\ lastMessagesPreparedAt # <<0, 0>>

(***************************************************************************)
(* C4  Transmission completeness: a send of a frame of N bytes writes at   *)
(* most one byte per call, the bytes at offsets 0..N-1 in this order and   *)
(* then the checksum; the call that completes the send finds N+1 bytes     *)
(* written and leaves hottMsg NULL, hottIsSending false, the port in      *)
(* MODE_RX and the receive buffer empty.                                   *)
(***************************************************************************)
C4_Completeness ==
    [][ IsTick =>
          /\ Len(probe'.wire) <= 1
          /\ (hottIsSending /\ probe'.wire # <<>> /\ Len(txLog) < SizeOf(txFrame)) =>
                /\ hottMsg.off = Len(txLog)
                /\ txLog' = Append(txLog, FrameBytes(txFrame)'[Len(txLog) + 1])
          /\ (hottIsSending /\ ~hottIsSending') =>
                /\ Len(txLog) = SizeOf(txFrame) + 1
                /\ txLog' = txLog
                /\ hottMsg' = NULL
                /\ portMode' = MODE_RX
                /\ rxBuf' = <<>>
          /\ (hottIsSending /\ Len(txLog) = SizeOf(txFrame) + 1) => probe'.wire = <<>>
      ]_vars

\* a send has completed, and its last call discarded bytes that had arrived
\* while it ran
C4_Witness ==
    /\ SendCompleted
    /\ Len(txLog) = SizeOf(txFrame) + 1
    /\ probe.flushed >= 2
    /\ portMode = MODE_RX
    /\ rxBuf = <<>>

(***************************************************************************)
(* C5  Inter-byte delay: a byte is written at least HOTT_TX_DELAY_US after *)
(* the previous byte, the first byte of a send at least HOTT_TX_DELAY_US   *)
(* after the call that switched the port to MODE_TX, and a call that       *)
(* comes earlier than that after the previous step of a send changes       *)
(* nothing of the transmitter.                                             *)
(***************************************************************************)
C5_InterByteDelay ==
    [][ IsTick =>
          /\ (probe'.wire # <<>> /\ lastWriteAt # Never) =>
                U32AtLeast(U32Sub(clock', lastWriteAt), HOTT_TX_DELAY_US)
          /\ (probe'.wire # <<>> /\ txLog = <<>>) =>
                /\ txOnAt # Never
                /\ U32AtLeast(U32Sub(clock', txOnAt), HOTT_TX_DELAY_US)
          /\ (hottIsSending /\ ~U32AtLeast(SinceLastStep(clock'), HOTT_TX_DELAY_US)) =>
                /\ probe'.wire = <<>>
                /\ UNCHANGED << hottMsg, hottMsgRemainingBytesToSendCount, hottMsgCrc,
                                portMode, hottIsSending, serialTimer >>
      ]_vars

\* a call came 2000 us after a byte was written and wrote nothing
C5_Witness ==
    /\ hottIsSending
    /\ Len(txLog) >= 1
    /\ probe.wire = <<>>
    /\ ~probe.ran
    /\ U32Sub(clock, lastWriteAt) = <<0, 2000>>

(***************************************************************************)
(* C6  GPS request dispatch.  As claimed: a consumed request               *)
(* [HOTT_BINARY_MODE_REQUEST_ID, 0x8A] always schedules the GPS frame with *)
(* a remaining count of sizeof(GPS frame) + 1.                             *)
(***************************************************************************)
C6_Original ==
    probe.req = <<HOTT_BINARY_MODE_REQUEST_ID, 138>> =>
        /\ hottMsg = [frame |-> GPSFRAME, off |-> 0]
        /\ hottMsgRemainingBytesToSendCount = SizeOf(GPSFRAME) + 1

(***************************************************************************)
(* C6  as amended: a consumed request [HOTT_BINARY_MODE_REQUEST_ID, 0x8A]  *)
(* schedules the GPS frame, with a remaining count of sizeof(GPS frame)+1, *)
(* and not the EAM frame, when sensors(SENSOR_GPS) holds; when it does not *)
(* hold, no send is scheduled and the port stays in MODE_RX.               *)
(***************************************************************************)
C6_GPSDispatch ==
    probe.req = <<HOTT_BINARY_MODE_REQUEST_ID, 138>> =>
        IF probe.sens = "yes"
        THEN /\ hottMsg = [frame |-> GPSFRAME, off |-> 0]
             /\ hottMsgRemainingBytesToSendCount = SizeOf(GPSFRAME) + 1
             /\ txFrame = GPSFRAME
             /\ txLog = <<>>
             /\ hottIsSending
             /\ portMode = MODE_TX
        ELSE /\ probe.sens = "no"
             /\ hottMsg = NULL
             /\ ~hottIsSending
             /\ portMode = MODE_RX

\* a GPS request has just been consumed, 4 ms or more after the window was
\* armed, with the GPS sensor present
C6_Witness ==
    /\ probe.req = <<HOTT_BINARY_MODE_REQUEST_ID, 138>>
    /\ probe.sens = "yes"
    /\ U32AtLeast(U32Sub(clock, lastHoTTRequestCheckAt), HOTT_RX_SCHEDULE)
    /\ hottMsg.frame = GPSFRAME

(***************************************************************************)
(* C7  Battery and unsupported requests: a consumed request                *)
(* [HOTT_BINARY_MODE_REQUEST_ID, 0x8E] schedules the EAM frame; a consumed *)
(* request with another request id, or with an address that is neither     *)
(* 0x8A nor 0x8E, schedules nothing: its two bytes are gone from the       *)
(* receive buffer, hottMsg is NULL, the port is in MODE_RX and the         *)
(* detector is looking for the next request.                               *)
(***************************************************************************)
C7_BatteryAndUnsupported ==
    /\ probe.req = <<HOTT_BINARY_MODE_REQUEST_ID, 142>> =>
          /\ hottMsg = [frame |-> EAMFRAME, off |-> 0]
          /\ hottMsgRemainingBytesToSendCount = SizeOf(EAMFRAME) + 1
          /\ txFrame = EAMFRAME
          /\ hottIsSending
    /\ (probe.req # <<>> /\ (probe.req[1] # HOTT_BINARY_MODE_REQUEST_ID
                             \/ probe.req[2] \notin {138, 142})) =>
          /\ rxBuf = <<>>
          /\ hottMsg = NULL
          /\ ~hottIsSending
          /\ portMode = MODE_RX
          /\ lookingForRequest
          /\ probe.wire = <<>>

\* a request for an address that is neither the GPS nor the EAM address has
\* just been consumed
C7_Witness ==
    /\ probe.req = <<HOTT_BINARY_MODE_REQUEST_ID, 128>>
    /\ hottMsg = NULL

(***************************************************************************)
(* C8  Settle-time window: the call in which the detector first sees       *)
(* exactly 2 waiting bytes only arms the window: it records the time and   *)
(* reads nothing.  A request is consumed only by a later call, made with   *)
(* the window armed, exactly 2 bytes waiting and at least HOTT_RX_SCHEDULE *)
(* after the recorded time, and that call disarms the window; an armed     *)
(* call that comes earlier changes nothing.                                *)
(***************************************************************************)
C8_SettleTime ==
    [][ IsTick =>
          /\ (~hottIsSending /\ lookingForRequest /\ Len(rxBuf) = 2) =>
                /\ probe'.req = <<>>
                /\ rxBuf' = rxBuf
                /\ ~lookingForRequest'
                /\ lastHoTTRequestCheckAt' = clock'
                /\ hottMsg' = NULL
          /\ probe'.req # <<>> =>
                /\ ~hottIsSending
                /\ ~lookingForRequest
                /\ rxBuf = probe'.req
                /\ U32AtLeast(U32Sub(clock', lastHoTTRequestCheckAt), HOTT_RX_SCHEDULE)
                /\ lookingForRequest'
                /\ rxBuf' = <<>>
          /\ (~hottIsSending /\ ~lookingForRequest /\ Len(rxBuf) = 2 /\
              ~U32AtLeast(U32Sub(clock', lastHoTTRequestCheckAt), HOTT_RX_SCHEDULE)) =>
                /\ probe'.req = <<>>
                /\ UNCHANGED << rxBuf, lookingForRequest, lastHoTTRequestCheckAt, hottMsg >>
      ]_vars

\* a request has just been consumed exactly HOTT_RX_SCHEDULE after arming
C8_Witness ==
    /\ probe.req # <<>>
    /\ lookingForRequest
    /\ U32Sub(clock, lastHoTTRequestCheckAt) = <<0, HOTT_RX_SCHEDULE>>

(***************************************************************************)
(* C9  Malformed framing.  As claimed: whenever the detector runs and the  *)
(* number of waiting bytes is neither 0 nor 2, the receive buffer is       *)
(* emptied, the window disarmed and no send scheduled.                     *)
(***************************************************************************)
C9_Original ==
    (probe.ran /\ probe.waiting \notin {0, 2}) =>
        /\ rxBuf = <<>>
        /\ lookingForRequest
        /\ hottMsg = NULL

(***************************************************************************)
(* C9  as amended: whenever the detector runs and finds more than 2 bytes  *)
(* waiting, all of them are discarded, the window is disarmed and no send  *)
(* is scheduled in that call; when it finds 1 byte waiting it leaves the   *)
(* byte in the buffer and does nothing.                                    *)
(***************************************************************************)
C9_Malformed ==
    /\ (probe.ran /\ probe.waiting > 2) =>
          /\ probe.flushed = probe.waiting
          /\ rxBuf = <<>>
          /\ lookingForRequest
          /\ probe.req = <<>>
          /\ hottMsg = NULL
          /\ ~hottIsSending
    /\ (probe.ran /\ probe.waiting = 1) =>
          /\ Len(rxBuf) = 1
          /\ probe.flushed = -1
          /\ hottMsg = NULL

\* the call before armed the window on 2 bytes, a third byte arrived, and this
\* call has discarded all three
C9_Witness ==
    /\ probe.ran
    /\ probe.waiting = 3
    /\ probe.flushed = 3
    /\ lookingForRequest
    /\ U32Sub(clock, lastHoTTRequestCheckAt) \in {<<0, d>> : d \in Deltas}

(***************************************************************************)
(* C10  Frame header and trailer: the start byte, the sensor-class id, the *)
(* sensor-text id and the stop byte of both frames keep the values         *)
(* initialiseMessages gave them through every refresh and send, so every   *)
(* send emits 0x7C first and 0x7D as its last byte before the checksum.    *)
(***************************************************************************)
C10_HeaderTrailer ==
    /\ \A f \in {"start_byte", "gps_sensor_id", "sensor_id", "stop_byte"} :
          hottGPSMessage[f] = initialiseGPSMessage[f]
    /\ \A f \in {"start_byte", "eam_sensor_id", "sensor_id", "stop_byte"} :
          hottEAMMessage[f] = initialiseEAMMessage[f]
    /\ hottGPSMessage.start_byte = 124 /\ hottGPSMessage.stop_byte = 125
    /\ hottEAMMessage.start_byte = 124 /\ hottEAMMessage.stop_byte = 125
    /\ (txFrame # "NULL" /\ Len(txLog) >= 1) => txLog[1] = 124
    /\ (txFrame # "NULL" /\ Len(txLog) >= SizeOf(txFrame)) => txLog[SizeOf(txFrame)] = 125

\* the EAM frame has been sent to its end after a refresh that wrote its
\* payload
C10_Witness ==
    /\ SendCompleted
    /\ txFrame = EAMFRAME
    /\ Len(txLog) = SizeOf(EAMFRAME) + 1
    /\ hottEAMMessage # initialiseEAMMessage
    /\ hottGPSMessage # initialiseGPSMessage

(***************************************************************************)
(* C11  Port acquire/release round trip.  As claimed: on both paths of     *)
(* configureHoTTTelemetryPort the saved mode and baud rate are those the   *)
(* port had before the acquisition, and freeHoTTTelemetryPort sets the     *)
(* port back to exactly those.                                             *)
(***************************************************************************)
C11_Original ==
    /\ portUse = "telemetry" =>
          /\ previousPortMode = acquisition.portMode
          /\ previousBaudRate = acquisition.baudRate
    /\ (portUse = "open" /\ acquisition.count >= 1) =>
          /\ portMode = acquisition.portMode
          /\ baudRate = acquisition.baudRate

(***************************************************************************)
(* C11  as amended: configureHoTTTelemetryPort leaves the port at 19200    *)
(* baud in MODE_RX.  When it found the port open it saved the mode and     *)
(* baud rate the port had before; when it opened the port itself it saved  *)
(* them after opening, so it saved MODE_RX and 19200.  No call of the      *)
(* handler and no arriving byte changes what was saved or the baud rate,   *)
(* and freeHoTTTelemetryPort sets the port to the saved mode and baud      *)
(* rate, also when the port is in MODE_TX in the middle of a send.         *)
(***************************************************************************)
C11_PortRoundTrip ==
    [][ /\ (portUse # "telemetry" /\ portUse' = "telemetry") =>
              /\ portMode' = MODE_RX
              /\ baudRate' = 19200
              /\ IF portUse = "open"
                 THEN previousPortMode' = portMode /\ previousBaudRate' = baudRate
                 ELSE previousPortMode' = MODE_RX /\ previousBaudRate' = 19200
        /\ (portUse = "telemetry" /\ portUse' = "telemetry") =>
              /\ UNCHANGED << previousPortMode, previousBaudRate, baudRate >>
        /\ (portUse = "telemetry" /\ portUse' # "telemetry") =>
              IF acquisition.via = "find"
              THEN portMode' = acquisition.portMode /\ baudRate' = acquisition.baudRate
              ELSE portMode' = MODE_RX /\ baudRate' = 19200
      ]_vars

\* the port was found open in MODE_RXTX at 115200 baud, and has been released
\* in the middle of a send, when it was in MODE_TX
C11_Witness ==
    /\ acquisition.via = "find"
    /\ portUse = "open"
    /\ hottIsSending
    /\ Len(txLog) >= 1
    /\ Len(txLog) < SizeOf(txFrame)
    /\ portMode = MODE_RXTX
    /\ baudRate = 115200

(***************************************************************************)
(* The magnitude of a coordinate c in units of 1e-7 degrees, as            *)
(* degrees * 100 + minutes and as the fraction of a minute in 1e-4 minutes *)
(***************************************************************************)
Abs(x) == IF x < 0 THEN -x ELSE x
MagnitudeDegMin(c) ==
    ((Abs(c) \div 10000000) * 100) + (((Abs(c) % 10000000) * 6) \div 1000000)
MagnitudeSec(c) == (((Abs(c) % 10000000) * 6) % 1000000) \div 100

(***************************************************************************)
(* C12  Coordinate sign encoding: after a refresh that had a fix, for the  *)
(* latitude and the longitude it read, negative ones included, the         *)
(* hemisphere flag is 1 exactly when the coordinate is negative, and the   *)
(* 16-bit degree-minute field and the 16-bit seconds field hold the        *)
(* magnitude of the coordinate: the sign is in the flag only.              *)
(***************************************************************************)
C12_Original ==
    (refreshed.n >= 1 /\ refreshed.v.GPS_FIX) =>
        LET lat == refreshed.v.GPS_coord_LAT
            lon == refreshed.v.GPS_coord_LON
        IN  /\ hottGPSMessage.pos_NS = (IF lat < 0 THEN 1 ELSE 0)
            /\ hottGPSMessage.pos_NS_dm_L + (256 * hottGPSMessage.pos_NS_dm_H)
                    = MagnitudeDegMin(lat)
            /\ hottGPSMessage.pos_NS_sec_L + (256 * hottGPSMessage.pos_NS_sec_H)
                    = MagnitudeSec(lat)
            /\ hottGPSMessage.pos_EW = (IF lon < 0 THEN 1 ELSE 0)
            /\ hottGPSMessage.pos_EW_dm_L + (256 * hottGPSMessage.pos_EW_dm_H)
                    = MagnitudeDegMin(lon)
            /\ hottGPSMessage.pos_EW_sec_L + (256 * hottGPSMessage.pos_EW_sec_H)
                    = MagnitudeSec(lon)

(***************************************************************************)
(* C13  Fix character: after every refresh the fix character of the GPS    *)
(* frame is '-' if the refresh read the fix flag as false, whatever the    *)
(* satellite count; otherwise it is '3' if the satellite count is at least *)
(* 5 and '2' if it is below 5.  The frame never holds 'D'.                 *)
(***************************************************************************)
C13_FixChar ==
    /\ refreshed.n >= 1 =>
          hottGPSMessage.gps_fix_char =
              (IF ~refreshed.v.GPS_FIX THEN 45
               ELSE IF refreshed.v.GPS_numSat >= 5 THEN 51 ELSE 50)
    /\ hottGPSMessage.gps_fix_char # 68
    /\ (txFrame = GPSFRAME /\ Len(txLog) >= 21) => txLog[21] \in {0, 45, 50, 51}

\* a refresh without a fix and with 7 satellites has followed one with a fix
C13_Witness ==
    /\ refreshed.n >= 2
    /\ ~refreshed.v.GPS_FIX
    /\ refreshed.v.GPS_numSat >= 5
    /\ refreshed.before.gps_fix_char = 51
    /\ hottGPSMessage.gps_fix_char = 45

(***************************************************************************)
(* C14  Send runs to completion: when the main loop keeps calling the      *)
(* handler, every send that has started completes: hottIsSending becomes   *)
(* false with hottMsg NULL and the port in MODE_RX, whatever calls,         *)
(* refreshes and arriving bytes fall into the send.                        *)
(***************************************************************************)
C14_RunsToCompletion ==
    /\ hottIsSending ~> (~hottIsSending /\ hottMsg = NULL /\ portMode = MODE_RX)
    \* no call stalls or aborts the send: a call that comes HOTT_TX_DELAY_US or
    \* more after the previous step takes the next step, an earlier one leaves
    \* the send as it is
    /\ [][ (IsTick /\ hottIsSending) =>
              IF U32AtLeast(SinceLastStep(clock'), HOTT_TX_DELAY_US)
              THEN \/ /\ hottMsgRemainingBytesToSendCount > 0
                      /\ hottIsSending'
                      /\ hottMsg' # NULL
                      /\ hottMsgRemainingBytesToSendCount' =
                             hottMsgRemainingBytesToSendCount - 1
                      /\ Len(txLog') = Len(txLog) + 1
                   \/ /\ hottMsgRemainingBytesToSendCount = 0
                      /\ ~hottIsSending'
                      /\ hottMsg' = NULL
                      /\ portMode' = MODE_RX
              ELSE /\ hottIsSending'
                   /\ UNCHANGED << hottMsg, hottMsgRemainingBytesToSendCount, txLog >>
          ]_vars

\* a send has completed that a refresh and a further request fell into
C14_Witness ==
    /\ SendCompleted
    /\ Len(txLog) = SizeOf(txFrame) + 1
    /\ SubSeq(txLog, 1, SizeOf(txFrame)) # FrameBytes(txFrame)
    /\ probe.flushed = 2
    /\ portMode = MODE_RX

(***************************************************************************)
(* C15  Completion step.  As claimed: the call that writes the checksum    *)
(* byte also completes the send: it leaves hottMsg NULL, hottIsSending     *)
(* false, the port in MODE_RX and the receive buffer empty.                *)
(***************************************************************************)
C15_Original ==
    (txFrame # "NULL" /\ probe.wire # <<>> /\ Len(txLog) = SizeOf(txFrame) + 1) =>
        /\ hottMsg = NULL
        /\ ~hottIsSending
        /\ portMode = MODE_RX
        /\ rxBuf = <<>>

(***************************************************************************)
(* C15  as amended: the step in which the decremented remaining-byte count *)
(* becomes zero writes the checksum byte and nothing else: the send is     *)
(* still in progress after it (hottMsg set, hottIsSending true, port in    *)
(* MODE_TX, received bytes kept).  The send completes in the next step of  *)
(* the transmitter, HOTT_TX_DELAY_US or more later, which finds the count  *)
(* at zero, writes nothing, clears hottMsg and hottIsSending, switches the *)
(* port to MODE_RX and discards the bytes received during the send.        *)
(***************************************************************************)
C15_CompletionStep ==
    [][ IsTick =>
          /\ (hottIsSending /\ hottMsgRemainingBytesToSendCount = 1 /\ probe'.wire # <<>>) =>
                /\ probe'.wire = << hottMsgCrc >>
                /\ Len(txLog') = SizeOf(txFrame) + 1
                /\ hottMsgRemainingBytesToSendCount' = 0
                /\ hottIsSending'
                /\ hottMsg' = hottMsg
                /\ portMode' = MODE_TX
                /\ rxBuf' = rxBuf
                /\ probe'.flushed = -1
          /\ (hottIsSending /\ hottMsgRemainingBytesToSendCount = 0) =>
                IF U32AtLeast(U32Sub(clock', lastWriteAt), HOTT_TX_DELAY_US)
                THEN /\ probe'.wire = <<>>
                     /\ hottMsg' = NULL
                     /\ ~hottIsSending'
                     /\ portMode' = MODE_RX
                     /\ rxBuf' = <<>>
                     /\ probe'.flushed = Len(rxBuf)
                ELSE /\ hottIsSending'
                     /\ UNCHANGED << hottMsg, portMode, rxBuf, txLog >>
          /\ (hottIsSending /\ ~hottIsSending') =>
                /\ hottMsgRemainingBytesToSendCount = 0
                /\ Len(txLog) = SizeOf(txFrame) + 1
      ]_vars

\* the checksum byte of the GPS frame has just been written, the send is still
\* in progress and a byte received during the send is still in the buffer
C15_Witness ==
    /\ txFrame = GPSFRAME
    /\ probe.wire # <<>>
    /\ Len(txLog) = SizeOf(GPSFRAME) + 1
    /\ hottIsSending
    /\ hottMsgRemainingBytesToSendCount = 0
    /\ portMode = MODE_TX
    /\ rxBuf # <<>>

(***************************************************************************)
(* C16  Refresh is not gated by sending: every call of the handler made    *)
(* 200000 us or more after the last refresh (after 0 before the first)     *)
(* writes the vehicle state it reads into both frames and records its time *)
(* as the time of the last refresh, whether or not a send is in progress;  *)
(* a call made earlier leaves both frames and the recorded time alone.     *)
(***************************************************************************)
C16_RefreshNotGated ==
    [][ IsTick =>
          IF U32AtLeast(U32Sub(clock', refreshed.at), 200000)
          THEN /\ lastMessagesPreparedAt' = clock'
               /\ refreshed'.at = clock'
               /\ hottGPSMessage'.gps_satelites = refreshed'.v.GPS_numSat
               /\ hottGPSMessage'.gps_fix_char # 0
               /\ hottEAMMessage'.main_voltage_L = refreshed'.v.vbat % 256
               /\ hottEAMMessage'.batt1_voltage_L = refreshed'.v.vbat % 256
          ELSE UNCHANGED << lastMessagesPreparedAt, refreshed, hottGPSMessage,
                            hottEAMMessage >>
      ]_vars

\* a torn frame: a send of the GPS frame has completed whose byte i is the
\* byte of the frame before the refresh and whose later byte j is the byte of
\* the frame after it, both bytes being changed by the refresh
C16_Witness ==
    /\ SendCompleted
    /\ txFrame = GPSFRAME
    /\ Len(txLog) = SizeOf(GPSFRAME) + 1
    /\ refreshed.n = 1
    /\ \E i, j \in 1..SizeOf(GPSFRAME) :
          /\ i < j
          /\ txLog[i] = refreshed.before[HOTT_GPS_MSG_t[i]]
          /\ txLog[i] # hottGPSMessage[HOTT_GPS_MSG_t[i]]
          /\ txLog[j] = hottGPSMessage[HOTT_GPS_MSG_t[j]]
          /\ txLog[j] # refreshed.before[HOTT_GPS_MSG_t[j]]

(***************************************************************************)
(* C17  Request-window reset: the window is armed while lookingForRequest  *)
(* is false.  After every run of the detector that found a number of       *)
(* waiting bytes other than 2 the window is not armed, and whenever the    *)
(* window is armed no send is in progress or scheduled and at least 2      *)
(* bytes are waiting.                                                      *)
(***************************************************************************)
C17_WindowReset ==
    /\ (probe.ran /\ probe.waiting # 2) => lookingForRequest
    /\ ~lookingForRequest =>
          /\ ~hottIsSending
          /\ hottMsg = NULL
          /\ portMode = MODE_RX
          /\ Len(rxBuf) >= 2

\* the window was armed on 2 bytes, two more bytes arrived, and the detector
\* has just found 4 bytes waiting
C17_Witness ==
    /\ probe.ran
    /\ probe.waiting = 4
    /\ lookingForRequest
    /\ rxBuf = <<>>
    /\ lastHoTTRequestCheckAt # <<0, 0>>
    /\ U32Sub(clock, lastHoTTRequestCheckAt) \in {<<0, d>> : d \in Deltas}

(***************************************************************************)
(* C18  Cursor, sending flag and port mode agree: between two calls of the *)
(* handler hottMsg is set exactly when hottIsSending is true, and the port *)
(* is in MODE_TX exactly when hottIsSending is true; a call that writes a  *)
(* byte finds the port in MODE_TX and leaves it there, and a call that     *)
(* reads a request finds the port in MODE_RX.                              *)
(***************************************************************************)
C18_CursorFlagMode ==
    /\ [](/\ hottMsg # NULL <=> hottIsSending
          /\ portMode = MODE_TX <=> hottIsSending
          /\ portMode \in {MODE_RX, MODE_TX})
    /\ [][ IsTick =>
              /\ probe'.wire # <<>> =>
                    /\ hottIsSending
                    /\ portMode = MODE_TX
                    /\ portMode' = MODE_TX
              /\ probe'.req # <<>> =>
                    /\ ~hottIsSending
                    /\ portMode = MODE_RX
          ]_vars

\* a request for the EAM frame has just been read, with the port in MODE_RX,
\* and the same call has started the send and switched the port to MODE_TX
C18_Witness ==
    /\ probe.req = <<HOTT_BINARY_MODE_REQUEST_ID, 142>>
    /\ probe.wire = <<>>
    /\ hottIsSending
    /\ hottMsg = [frame |-> EAMFRAME, off |-> 0]
    /\ portMode = MODE_TX
    /\ txOnAt = clock

(***************************************************************************)
(* The fields of the GPS frame that hold the position: coordinates,        *)
(* hemispheres, speed, altitude, distance and direction to home            *)
(***************************************************************************)
PositionFields ==
    FieldsOf(HOTT_GPS_MSG_t) \ {"start_byte", "gps_sensor_id", "sensor_id",
                                "gps_satelites", "gps_fix_char", "stop_byte"}

(***************************************************************************)
(* C19  Refresh without a GPS fix leaves the position stale: a refresh     *)
(* that reads the fix flag as false changes the satellite count and the    *)
(* fix character of the GPS frame and no other byte of it; the position    *)
(* fields keep what the last refresh that had a fix wrote, or zero if      *)
(* there was none, and a send of the GPS frame that runs after such a      *)
(* refresh transmits these values.                                         *)
(***************************************************************************)
C19_StalePosition ==
    (refreshed.n >= 1 /\ ~refreshed.v.GPS_FIX) =>
        /\ hottGPSMessage = [refreshed.before EXCEPT
                                !.gps_satelites = refreshed.v.GPS_numSat,
                                !.gps_fix_char = 45]
        /\ \A f \in PositionFields : hottGPSMessage[f] = refreshed.fix[f]
        /\ (txFrame = GPSFRAME /\ txOnAt # Never /\
            U32Sub(txOnAt, refreshed.at)[1] < 32768) =>
                \A i \in 1..Len(txLog) :
                    (i <= SizeOf(GPSFRAME) /\ HOTT_GPS_MSG_t[i] \in PositionFields) =>
                        txLog[i] = refreshed.fix[HOTT_GPS_MSG_t[i]]

\* a refresh with a fix in the southern hemisphere was followed by one without
\* a fix that read another position, and a send of the GPS frame made after
\* both has completed
C19_Witness ==
    /\ refreshed.n >= 2
    /\ ~refreshed.v.GPS_FIX
    /\ refreshed.before.gps_fix_char \in {50, 51}
    /\ refreshed.fix.pos_NS = 1
    /\ refreshed.v.GPS_coord_LAT > 0
    /\ SendCompleted
    /\ txFrame = GPSFRAME
    /\ Len(txLog) = SizeOf(GPSFRAME) + 1
    /\ txLog[6] = 1
    /\ U32Sub(txOnAt, refreshed.at)[1] < 32768

(***************************************************************************)
(* C20  Timer wrap-around: with micros() wrapping past 2^32, a byte is     *)
(* written only HOTT_TX_DELAY_US or more after the previous step of the    *)
(* transmitter and a call that comes that long after it does step the      *)
(* transmitter; a request is read only HOTT_RX_SCHEDULE or more after the  *)
(* window was armed and a call that finds the window armed that long with  *)
(* 2 bytes waiting does read it; the frames are refreshed by exactly the   *)
(* calls that come 200000 us or more after the last refresh.  Times are    *)
(* differences modulo 2^32.                                                *)
(***************************************************************************)
C20_WrapAround ==
    [][ IsTick =>
          /\ probe'.wire # <<>> =>
                U32AtLeast(SinceLastStep(clock'), 3000)
          /\ (hottIsSending /\ U32AtLeast(SinceLastStep(clock'), 3000)) =>
                /\ serialTimer' = clock'
                /\ probe'.wire # <<>> \/ ~hottIsSending'
          /\ probe'.req # <<>> =>
                U32AtLeast(U32Sub(clock', lastHoTTRequestCheckAt), 4000)
          /\ (~hottIsSending /\ ~lookingForRequest /\ Len(rxBuf) = 2 /\
              U32AtLeast(U32Sub(clock', lastHoTTRequestCheckAt), 4000)) =>
                probe'.req = rxBuf
          /\ IF U32AtLeast(U32Sub(clock', refreshed.at), 200000)
             THEN refreshed'.n = refreshed.n + 1 /\ lastMessagesPreparedAt' = clock'
             ELSE UNCHANGED << refreshed, lastMessagesPreparedAt >>
      ]_vars

\* the window was armed before the wrap and the request read after it, the
\* send of the response has completed, and the frames, refreshed before the
\* wrap, have been refreshed again after it
C20_Witness ==
    /\ lastHoTTRequestCheckAt[1] = 65535
    /\ txOnAt # Never
    /\ txOnAt[1] = 0
    /\ SendCompleted
    /\ Len(txLog) = SizeOf(txFrame) + 1
    /\ refreshed.n = 2
    /\ refreshed.at[1] < 32768
    /\ U32Sub(refreshed.at, << 65535, 0 >>)[1] >= 3

====
